---- MODULE Spec2Model ----
(***************************************************************************)
(* A model of frequenz.client.reporting._client: the ComponentsDataBatch   *)
(* wrapper (is_empty, __iter__) and the ReportingApiClient (the two        *)
(* list_* async generators, the batch consumer they share, close and the   *)
(* async context manager).                                                 *)
(*                                                                         *)
(* Python values are modelled as follows.  An optional value is a sequence *)
(* of length 0 (None) or 1.  A datetime is an integer number of            *)
(* microseconds; a protobuf Timestamp is a record of seconds and nanos.    *)
(* A protobuf message is a record; a message object has neither __bool__   *)
(* nor __len__, so it is truthy whatever its fields hold, and reading a    *)
(* member of a oneof that is not the one set gives that member's default   *)
(* instance.                                                               *)
(***************************************************************************)
EXTENDS Integers, Sequences, FiniteSets, TLC

\* ------------------------------------------------------------------ bounds
MaxComponents == 2
MaxSamples == 2
MaxMsgs == 2
MaxCloses == 2

\* --------------------------------------------------------- python helpers
None == <<>>
Some(v) == <<v>>

SeqsUpTo(S, n) == UNION {[1..k -> S] : k \in 0..n}

\* ------------------------------------------------------------ metric codec
\* frequenz.client.common.metric.Metric: the enum's members and wire codes.
MetricNames == {"DC_VOLTAGE", "DC_CURRENT"}

Metric_to_proto(name) == IF name = "DC_VOLTAGE" THEN 1 ELSE 2

\* The name of Metric.from_proto(code), for a code the enum has and, where the
\* codec maps a code it does not have to a member, for that one.
Metric_from_proto_name(code) ==
    IF code = 1 THEN "DC_VOLTAGE" ELSE IF code = 2 THEN "DC_CURRENT" ELSE "UNSPECIFIED"

\* Whether the enum has a member with this wire code.
MetricKnown(code) == \E name \in MetricNames : Metric_to_proto(name) = code

\* ------------------------------------------------------------- timestamps
MicrosPerSecond == 1000000
NanosPerMicro == 1000

\* PBTimestamp.ToDatetime(): microsecond precision, nanoseconds truncated.
ToDatetime(ts) == ts.seconds * MicrosPerSecond + (ts.nanos \div NanosPerMicro)

\* dt2ts: PBTimestamp().FromDatetime(dt).
dt2ts(dt) ==
    [seconds |-> dt \div MicrosPerSecond,
     nanos |-> (dt % MicrosPerSecond) * NanosPerMicro]

\* ------------------------------------------------------ protobuf messages
\* SimpleMetricSample's default instance (value is a proto3 float: 0.0).
DefaultSimpleMetricSample == [value |-> 0]

\* MetricSampleVariant: a oneof of simple_metric and aggregated_metric; "which"
\* is the member that is set ("" when none is).
VariantSimple(v) == [which |-> "simple_metric", simple |-> [value |-> v]]
VariantAggregated == [which |-> "aggregated_metric", simple |-> DefaultSimpleMetricSample]
VariantUnset == [which |-> "", simple |-> DefaultSimpleMetricSample]

\* Reading msample.value.simple_metric: the member when it is the one set, else
\* its default instance.
simple_metric(variant) ==
    IF variant.which = "simple_metric" THEN variant.simple ELSE DefaultSimpleMetricSample

\* bool(x) of a protobuf message object.
MessageTruthy(msg) == TRUE

\* The metric samples the batches of the model are built from: one of each
\* variant, told apart by metric and sampling time.
PBSamples ==
    {[metric |-> 1, sampled_at |-> [seconds |-> 1, nanos |-> 2500], value |-> VariantSimple(5)],
     [metric |-> 2, sampled_at |-> [seconds |-> 2, nanos |-> 0], value |-> VariantAggregated],
     [metric |-> 2, sampled_at |-> [seconds |-> 3, nanos |-> 999], value |-> VariantUnset]}

MicrogridIds == {7}

\* The component ids of a response are distinct; they come in ascending or in
\* descending order.
ComponentIdOrders ==
    {[k \in 1..MaxComponents |-> k], [k \in 1..MaxComponents |-> MaxComponents + 1 - k]}

\* PBReceiveMicrogridComponentsDataStreamResponse values.
PBResponses ==
    {[microgrid_id |-> mid,
      components |-> [k \in 1..Len(ss) |-> [component_id |-> ids[k], metric_samples |-> ss[k]]]] :
        mid \in MicrogridIds, ids \in ComponentIdOrders,
        ss \in SeqsUpTo(SeqsUpTo(PBSamples, MaxSamples), MaxComponents)}

\* ----------------------------------------------------- ComponentsDataBatch
ComponentsDataBatch(data_pb) == [data_pb |-> data_pb]

\* ComponentsDataBatch.is_empty (mutant: a batch is empty when every component
\* is without samples).
is_empty_all_components(b) ==
    \A k \in 1..Len(b.data_pb.components) :
        b.data_pb.components[k].metric_samples = <<>>

is_empty(b) ==
    IF b.data_pb.components = <<>> THEN TRUE
    ELSE IF b.data_pb.components[1].metric_samples = <<>> THEN TRUE
    ELSE FALSE

\* The value expression of __iter__.
sample_value(msample) ==
    IF MessageTruthy(simple_metric(msample.value))
    THEN Some(simple_metric(msample.value).value)
    ELSE None

\* One MetricSample named tuple.
MetricSample(mid, cid, msample) ==
    [timestamp |-> ToDatetime(msample.sampled_at),
     microgrid_id |-> mid,
     component_id |-> cid,
     metric |-> Metric_from_proto_name(msample.metric),
     value |-> sample_value(msample)]

\* The inner loop of __iter__: the samples of one component, in order.
RECURSIVE iter_samples(_, _, _)
iter_samples(mid, cid, samples) ==
    IF samples = <<>> THEN <<>>
    ELSE <<MetricSample(mid, cid, Head(samples))>> \o iter_samples(mid, cid, Tail(samples))

\* The outer loop of __iter__: the components, in order.
RECURSIVE iter_components(_, _)
iter_components(mid, components) ==
    IF components = <<>> THEN <<>>
    ELSE iter_samples(mid, Head(components).component_id, Head(components).metric_samples)
         \o iter_components(mid, Tail(components))

\* Mutant of __iter__: every record carries the first component's id.
batch_iter_first_cid(b) ==
    iter_components(b.data_pb.microgrid_id,
        [k \in 1..Len(b.data_pb.components) |->
            [component_id |-> b.data_pb.components[1].component_id,
             metric_samples |-> b.data_pb.components[k].metric_samples]])

\* ComponentsDataBatch.__iter__, run to exhaustion.
batch_iter(b) == iter_components(b.data_pb.microgrid_id, b.data_pb.components)

\* ------------------------------------------------------------- the stream
\* The responses a stream of the model delivers: two samples of one component;
\* a first component without samples followed by one with a sample; and a
\* response without components.
RespTwo ==
    [microgrid_id |-> 7,
     components |-> <<[component_id |-> 1,
                       metric_samples |->
                         <<[metric |-> 1, sampled_at |-> [seconds |-> 1, nanos |-> 2500],
                            value |-> VariantSimple(5)],
                           [metric |-> 2, sampled_at |-> [seconds |-> 2, nanos |-> 0],
                            value |-> VariantAggregated]>>]>>]

RespLate ==
    [microgrid_id |-> 7,
     components |-> <<[component_id |-> 1, metric_samples |-> <<>>],
                      [component_id |-> 2,
                       metric_samples |->
                         <<[metric |-> 1, sampled_at |-> [seconds |-> 1, nanos |-> 2500],
                            value |-> VariantSimple(5)]>>]>>]

RespBare == [microgrid_id |-> 7, components |-> <<>>]

\* A response whose second sample carries a metric code the enum does not have.
RespBad ==
    [microgrid_id |-> 7,
     components |-> <<[component_id |-> 1,
                       metric_samples |->
                         <<[metric |-> 1, sampled_at |-> [seconds |-> 1, nanos |-> 2500],
                            value |-> VariantSimple(5)],
                           [metric |-> 99, sampled_at |-> [seconds |-> 2, nanos |-> 0],
                            value |-> VariantSimple(6)]>>],
                      [component_id |-> 2,
                       metric_samples |->
                         <<[metric |-> 2, sampled_at |-> [seconds |-> 3, nanos |-> 0],
                            value |-> VariantSimple(7)]>>]>>]

\* What `async for response in stream` may bind response to: a protobuf
\* response, or a falsy object (None, as a stream double yields it).
StreamItems ==
    {[falsy |-> FALSE, pb |-> m] : m \in {RespTwo, RespLate, RespBare}}
    \cup {[falsy |-> TRUE, pb |-> RespBare]}

\* The responses of a server that also sends a metric code the client's enum
\* does not have.
CodecItems == {[falsy |-> FALSE, pb |-> m] : m \in {RespTwo, RespBad}}

\* bool(response).
Truthy(item) == IF item.falsy THEN FALSE ELSE MessageTruthy(item.pb)

\* ------------------------------------------------------------ the callers
Calls == {1, 2}

\* The arguments the callers of the model pass.
SingleInputs == {[microgrid_id |-> 7, component_id |-> 2]}
MultiInputs == {<< <<7, <<2>>>> >>, << <<7, <<2, 1>>>>, <<8, <<3>>>> >>}

\* metrics: one Metric (is_metric) or a list of them; datetimes in microseconds.
MetricsInputs ==
    {[is_metric |-> TRUE, items |-> <<"DC_CURRENT">>],
     [is_metric |-> FALSE, items |-> <<"DC_CURRENT", "DC_VOLTAGE">>]}
WindowInputs == {[start_dt |-> 1000001, end_dt |-> 2000000],
                 [start_dt |-> 2000000, end_dt |-> 1000001]}
ResolutionInputs == {None, Some(60)}
KeyInputs == {None, Some("secret"), Some("")}

\* What Metric.from_proto does with a code the enum does not have: it raises
\* ValueError (strict) or returns a member of the enum (lenient).
CodecInputs == {"strict", "lenient"}

Queries ==
    {[metrics |-> m, start_dt |-> w.start_dt, end_dt |-> w.end_dt, resolution |-> r] :
        m \in MetricsInputs, w \in WindowInputs, r \in ResolutionInputs}

\* The clients of the model's main runs: an API key (or none) and the query
\* its callers make.  Every metrics form, window and resolution, the key
\* "secret" and no key occur in one of the two; SpecRequest runs every key
\* with every query.
Setups ==
    {s \in [key : {None, Some("secret")}, query : Queries] :
        LET scalar == s.query.metrics.is_metric
            forward == s.query.start_dt <= s.query.end_dt
            raw == s.query.resolution = None
            keyed == s.key # None
        IN /\ forward = scalar
           /\ keyed = scalar
           /\ raw = scalar}

VARIABLES
    batch,        \* a ComponentsDataBatch under test
    bop,          \* the methods of it that have run
    bempty,       \* what is_empty() returned
    bflat,        \* what list(batch) returned
    metadata,     \* self._metadata
    api_key,      \* the key argument of __init__
    codec,        \* how Metric.from_proto treats a code the enum does not have
    chan,         \* self._grpc_channel: "open" or "closed"
    closes,       \* explicit close() calls completed
    exited,       \* whether __aexit__ has run
    scope_exit,   \* the exception __aexit__ got and the one that left the scope
    close_err,    \* the error a close() or __aexit__ raised ("" for none)
    query,        \* the metrics, time window and resolution the callers pass
    call          \* per caller: its list_* async generator and its stream

vars ==
    <<batch, bop, bempty, bflat, metadata, api_key, codec, chan, closes, exited, scope_exit,
      close_err, query, call>>
batchVars == <<batch, bop, bempty, bflat>>
clientVars ==
    <<metadata, api_key, codec, chan, closes, exited, scope_exit, close_err, query, call>>

\* ----------------------------------------------------- request building
\* The keyword arguments list_single_component_data passes on (mutant: the
\* two ids swapped).
single_args_swapped(microgrid_id, component_id, q) ==
    [microgrid_components |-> << <<component_id, <<microgrid_id>>>> >>,
     metrics |-> IF q.metrics.is_metric THEN <<q.metrics.items[1]>> ELSE q.metrics.items,
     start_dt |-> q.start_dt,
     end_dt |-> q.end_dt,
     resolution |-> q.resolution]

single_args(microgrid_id, component_id, q) ==
    [microgrid_components |-> << <<microgrid_id, <<component_id>>>> >>,
     metrics |-> IF q.metrics.is_metric THEN <<q.metrics.items[1]>> ELSE q.metrics.items,
     start_dt |-> q.start_dt,
     end_dt |-> q.end_dt,
     resolution |-> q.resolution]

\* The keyword arguments list_microgrid_components_data passes on.
multi_args(microgrid_components, q) ==
    [microgrid_components |-> microgrid_components,
     metrics |-> IF q.metrics.is_metric THEN <<q.metrics.items[1]>> ELSE q.metrics.items,
     start_dt |-> q.start_dt,
     end_dt |-> q.end_dt,
     resolution |-> q.resolution]

\* The PBReceiveMicrogridComponentsDataStreamRequest of
\* _list_microgrid_components_data_batch (mutant: a window given backwards is
\* put in order).
build_request_ordered(a) ==
    LET lo == IF a.start_dt <= a.end_dt THEN a.start_dt ELSE a.end_dt
        hi == IF a.start_dt <= a.end_dt THEN a.end_dt ELSE a.start_dt
    IN [microgrid_components |->
           [i \in 1..Len(a.microgrid_components) |->
               [microgrid_id |-> a.microgrid_components[i][1],
                component_ids |-> a.microgrid_components[i][2]]],
        metrics |-> [i \in 1..Len(a.metrics) |-> Metric_to_proto(a.metrics[i])],
        filter |->
           [time_filter |-> [start |-> dt2ts(lo), end |-> dt2ts(hi)],
            resampling_options |-> [resolution |-> a.resolution]]]

build_request(a) ==
    [microgrid_components |->
        [i \in 1..Len(a.microgrid_components) |->
            [microgrid_id |-> a.microgrid_components[i][1],
             component_ids |-> a.microgrid_components[i][2]]],
     metrics |-> [i \in 1..Len(a.metrics) |-> Metric_to_proto(a.metrics[i])],
     filter |->
        [time_filter |-> [start |-> dt2ts(a.start_dt), end |-> dt2ts(a.end_dt)],
         resampling_options |-> [resolution |-> a.resolution]]]

\* ------------------------------------------------------ one caller's state
\* pc: idle (no call made), created (the async generator exists, its body has
\* not run), waiting (suspended in `async for response in stream`), suspended
\* (suspended at `yield entry`), done (ended: StopAsyncIteration), failed (an
\* exception left the generator).
\* input: what the caller passed (the two ids, or the groupings).
\* sent: the stub calls made, each with its request and metadata.
\* stream: none, open, cancelled (by the channel's close), dropped (left by the
\* generator), finished.
\* received: what the stream has delivered; ended: how the stream ended for the
\* generator ("" not yet, eof, rpc_error, cancelled, refused).
\* batches: the ComponentsDataBatch values produced; cur: the entries of the
\* batch in hand not yet yielded; raises: whether __iter__ of the batch in hand
\* raises once those are yielded; delivered: the entries the caller has got;
\* err: the exception that left the generator ("" for none).
NoArgs ==
    [microgrid_components |-> <<>>, metrics |-> <<>>, start_dt |-> 0, end_dt |-> 0,
     resolution |-> None]

IdleCall ==
    [pc |-> "idle", kind |-> "", input |-> <<>>, args |-> NoArgs, sent |-> <<>>,
     stream |-> "none",
     received |-> <<>>, ended |-> "", batches |-> <<>>, cur |-> <<>>, raises |-> FALSE,
     delivered |-> <<>>, err |-> ""]

\* The responses (the falsy object apart) all streams together have delivered.
RECURSIVE TotalResponses(_)
TotalResponses(S) ==
    IF S = {} THEN 0
    ELSE LET c == CHOOSE x \in S : TRUE
         IN Len(SelectSeq(call[c].received, LAMBDA item : ~item.falsy))
            + TotalResponses(S \ {c})

\* `for entry in batch: yield entry` of the two list_* generators (mutants:
\* only the first entry of a batch is yielded; a batch whose is_empty() is
\* true is skipped).
facade_entries_first_only(k, b) ==
    IF batch_iter(b) = <<>> THEN <<>> ELSE <<Head(batch_iter(b))>>

facade_entries_skip_empty(k, b) == IF is_empty(b) THEN <<>> ELSE batch_iter(b)

facade_entries(k, b) == IF k = "single" THEN batch_iter(b) ELSE batch_iter(b)

\* `if not response: break` (mutant: the check is missing).
is_sentinel_never(item) == FALSE

is_sentinel(item) == ~Truthy(item)

\* `except grpcaio.AioRpcError: print(...); return` (mutants: the error is
\* raised again; the stub is called again with the same request).
on_rpc_error_reraise(s) == [s EXCEPT !.pc = "failed", !.err = "AioRpcError", !.stream = "finished"]

on_rpc_error_retry(s) ==
    [s EXCEPT !.sent = Append(@, s.sent[1]), !.pc = "waiting", !.stream = "open", !.ended = ""]

on_rpc_error(s) == [s EXCEPT !.pc = "done", !.stream = "finished"]

\* The generator's first step: the request is built and the stub is called
\* with the client's metadata.  A closed grpc.aio channel refuses the call with
\* UsageError, which is no AioRpcError (mutant: the stub is called without
\* metadata).
start_stream_no_metadata(s) ==
    LET n == [s EXCEPT !.sent = Append(@, [request |-> build_request(s.args),
                                            metadata |-> <<>>])]
    IN IF chan = "closed"
       THEN [n EXCEPT !.pc = "failed", !.err = "UsageError", !.ended = "refused"]
       ELSE [n EXCEPT !.pc = "waiting", !.stream = "open"]

start_stream(s) ==
    LET n == [s EXCEPT !.sent = Append(@, [request |-> build_request(s.args),
                                            metadata |-> metadata])]
    IN IF chan = "closed"
       THEN [n EXCEPT !.pc = "failed", !.err = "UsageError", !.ended = "refused"]
       ELSE [n EXCEPT !.pc = "waiting", !.stream = "open"]

\* The wire codes of the samples of a response, in the order __iter__ visits
\* them.
RECURSIVE iter_codes(_)
iter_codes(components) ==
    IF components = <<>> THEN <<>>
    ELSE [j \in 1..Len(Head(components).metric_samples) |->
             Head(components).metric_samples[j].metric]
         \o iter_codes(Tail(components))

\* Whether Metric.from_proto(code) raises.
from_proto_raises(code) == codec = "strict" /\ ~MetricKnown(code)

\* The number of entries __iter__ yields before Metric.from_proto raises (all
\* of them when it does not).
RECURSIVE yielded(_)
yielded(codes) ==
    IF codes = <<>> \/ from_proto_raises(Head(codes)) THEN 0
    ELSE 1 + yielded(Tail(codes))

\* Whether __iter__ of a response's batch raises before its end.
iter_raises(pb) == yielded(iter_codes(pb.components)) < Len(iter_codes(pb.components))

\* The first n entries a generator yields, or all of them when they are fewer.
Take(entries, n) == SubSeq(entries, 1, IF n < Len(entries) THEN n ELSE Len(entries))

\* An exception raised by __iter__ inside `for entry in batch`: no handler of
\* the two generators catches it, it leaves them and reaches the caller
\* (mutant: it is taken for the end of the stream).
on_iter_error_swallowed(s) ==
    [s EXCEPT !.pc = "done", !.raises = FALSE,
              !.stream = IF @ = "open" THEN "dropped" ELSE @]

on_iter_error(s) ==
    [s EXCEPT !.pc = "failed", !.err = "ValueError", !.raises = FALSE,
              !.stream = IF @ = "open" THEN "dropped" ELSE @]

\* The generator resumed after `yield entry`: the next entry of the batch in
\* hand, or back to the stream for the next response (mutant: the next
\* response is asked for as soon as the last entry of a batch is yielded).
resume_prefetch(s) ==
    IF s.cur # <<>>
    THEN [s EXCEPT !.delivered = Append(@, Head(s.cur)), !.cur = Tail(@),
                   !.pc = IF Tail(s.cur) = <<>> THEN "waiting" ELSE "suspended"]
    ELSE [s EXCEPT !.pc = "waiting"]

resume(s) ==
    IF s.cur # <<>>
    THEN [s EXCEPT !.delivered = Append(@, Head(s.cur)), !.cur = Tail(@)]
    ELSE IF s.raises THEN on_iter_error(s)
    ELSE [s EXCEPT !.pc = "waiting"]

\* One response bound by `async for response in stream`.
on_response(s, item) ==
    LET r == [s EXCEPT !.received = Append(@, item)]
        b == ComponentsDataBatch(item.pb)
        entries == Take(facade_entries(s.kind, b), yielded(iter_codes(item.pb.components)))
    IN IF is_sentinel(item)
       THEN [r EXCEPT !.pc = "done", !.stream = "dropped"]
       ELSE IF entries = <<>>
            THEN IF iter_raises(item.pb)
                 THEN on_iter_error([r EXCEPT !.batches = Append(@, b)])
                 ELSE [r EXCEPT !.batches = Append(@, b)]
            ELSE [r EXCEPT !.batches = Append(@, b),
                           !.delivered = Append(@, Head(entries)),
                           !.cur = Tail(entries),
                           !.raises = iter_raises(item.pb),
                           !.pc = "suspended"]

\* self._grpc_channel.close(grace=None): every RPC in flight is cancelled at
\* once (mutant: the RPCs in flight are left alone).
cancel_in_flight_nothing(s) == s

cancel_in_flight(s) == IF s.stream = "open" THEN [s EXCEPT !.stream = "cancelled"] ELSE s

\* What close() raises: closing a closed grpc.aio channel returns at once
\* (mutant: a second close is an error).
close_outcome_strict(status) == IF status = "closed" THEN "UsageError" ELSE ""

close_outcome(status) == ""

\* ------------------------------------------------------------ the client
\* bool(key) of `if key`: None and the empty string are falsy.
KeyTruthy(key) == key # None /\ key[1] # ""

\* ReportingApiClient.__init__: the channel is open; the key, when given, is
\* the metadata of every call.
client_init(key) ==
    /\ api_key = key
    /\ metadata = (IF KeyTruthy(key) THEN << <<"key", key[1]>> >> ELSE <<>>)
    /\ chan = "open"
    /\ closes = 0
    /\ exited = FALSE
    /\ scope_exit = [raised |-> "", propagated |-> ""]
    /\ close_err = ""

\* A call of list_single_component_data: an async generator is created.
list_single_component_data(c, microgrid_id, component_id) ==
    /\ call[c].pc = "idle"
    /\ call' = [call EXCEPT ![c] =
                  [@ EXCEPT !.pc = "created", !.kind = "single",
                            !.input = <<microgrid_id, component_id>>,
                            !.args = single_args(microgrid_id, component_id, query)]]
    /\ UNCHANGED <<batchVars, metadata, api_key, codec, chan, closes, exited, scope_exit,
                 close_err, query>>

\* A call of list_microgrid_components_data: an async generator is created.
list_microgrid_components_data(c, microgrid_components) ==
    /\ call[c].pc = "idle"
    /\ call' = [call EXCEPT ![c] =
                  [@ EXCEPT !.pc = "created", !.kind = "multi",
                            !.input = microgrid_components,
                            !.args = multi_args(microgrid_components, query)]]
    /\ UNCHANGED <<batchVars, metadata, api_key, codec, chan, closes, exited, scope_exit,
                 close_err, query>>

\* The caller asks for the next entry (__anext__): the generator runs to its
\* next suspension.
anext(c) ==
    /\ call[c].pc \in {"created", "suspended"}
    /\ call' = [call EXCEPT ![c] =
                  IF @.pc = "created" THEN start_stream(@) ELSE resume(@)]
    /\ UNCHANGED <<batchVars, metadata, api_key, codec, chan, closes, exited, scope_exit,
                 close_err, query>>

\* The stream delivers a response to a generator waiting for one: each
\* generator iterates the stream its own stub call returned (mutant: one stream
\* kept on the client feeds every generator that waits).
stream_message_shared(c, item) ==
    /\ call[c].pc = "waiting"
    /\ call[c].stream = "open"
    /\ ~item.falsy => TotalResponses(Calls) < MaxMsgs
    /\ call' = [d \in Calls |->
                  IF call[d].pc = "waiting" /\ call[d].stream = "open"
                  THEN on_response(call[d], item) ELSE call[d]]
    /\ UNCHANGED <<batchVars, metadata, api_key, codec, chan, closes, exited, scope_exit,
                 close_err, query>>

stream_message(c, item) ==
    /\ call[c].pc = "waiting"
    /\ call[c].stream = "open"
    /\ ~item.falsy => TotalResponses(Calls) < MaxMsgs
    /\ call' = [call EXCEPT ![c] = on_response(@, item)]
    /\ UNCHANGED <<batchVars, metadata, api_key, codec, chan, closes, exited, scope_exit,
                 close_err, query>>

\* The server closes the stream: the `async for` ends and the generator returns.
stream_end(c) ==
    /\ call[c].pc = "waiting"
    /\ call[c].stream = "open"
    /\ call' = [call EXCEPT ![c] =
                  [@ EXCEPT !.pc = "done", !.ended = "eof", !.stream = "finished"]]
    /\ UNCHANGED <<batchVars, metadata, api_key, codec, chan, closes, exited, scope_exit,
                 close_err, query>>

\* The stream raises AioRpcError to a generator waiting for a response.
stream_error(c) ==
    /\ call[c].pc = "waiting"
    /\ call[c].stream = "open"
    /\ call' = [call EXCEPT ![c] = on_rpc_error([@ EXCEPT !.ended = "rpc_error"])]
    /\ UNCHANGED <<batchVars, metadata, api_key, codec, chan, closes, exited, scope_exit,
                 close_err, query>>

\* A cancelled RPC ends the wait of its generator: with asyncio.CancelledError,
\* which leaves the generator, or with an AioRpcError of status CANCELLED.
stream_cancelled(c, raised) ==
    /\ call[c].pc = "waiting"
    /\ call[c].stream = "cancelled"
    /\ call' = [call EXCEPT ![c] =
                  IF raised = "AioRpcError"
                  THEN on_rpc_error([@ EXCEPT !.ended = "rpc_error"])
                  ELSE [@ EXCEPT !.pc = "failed", !.err = "CancelledError",
                                 !.ended = "cancelled", !.stream = "finished"]]
    /\ UNCHANGED <<batchVars, metadata, api_key, codec, chan, closes, exited, scope_exit,
                 close_err, query>>

\* The body of close(): await self._grpc_channel.close(grace=None).
channel_close ==
    /\ close_err' = close_outcome(chan)
    /\ chan' = "closed"
    /\ call' = [c \in Calls |-> cancel_in_flight(call[c])]

\* ReportingApiClient.close.
close ==
    /\ closes < MaxCloses
    /\ close_err = ""
    /\ closes' = closes + 1
    /\ channel_close
    /\ UNCHANGED <<batchVars, metadata, api_key, codec, exited, scope_exit, query>>

\* The exception that leaves the `async with` block when its body raised exc
\* ("" for none): __aexit__ returns None, so it is exc itself (mutant:
\* __aexit__ returns True).
aexit_outcome_suppressed(exc) == ""

aexit_outcome(exc) == exc

\* The exceptions the body of the `async with` block ends with: none, or one
\* that left a generator of a caller.
ScopeErrors == {""} \cup {call[c].err : c \in Calls}

\* ReportingApiClient.__aexit__: close(), then None is returned.
aexit(exc) ==
    /\ ~exited
    /\ close_err = ""
    /\ exited' = TRUE
    /\ channel_close
    /\ scope_exit' = [raised |-> exc, propagated |-> aexit_outcome(exc)]
    /\ UNCHANGED <<batchVars, metadata, api_key, codec, closes, query>>

\* -------------------------------------------------- ComponentsDataBatch use
batch_is_empty ==
    /\ "is_empty" \notin bop
    /\ bop' = bop \cup {"is_empty"}
    /\ bempty' = is_empty(batch)
    /\ UNCHANGED <<batch, bflat, clientVars>>

batch_list ==
    /\ "iter" \notin bop
    /\ bop' = bop \cup {"iter"}
    /\ bflat' = batch_iter(batch)
    /\ UNCHANGED <<batch, bempty, clientVars>>

\* --------------------------------------------------------- specifications
InitBatchIdle ==
    /\ batch = ComponentsDataBatch(RespBare)
    /\ bop = {}
    /\ bempty = FALSE
    /\ bflat = <<>>

Init ==
    /\ InitBatchIdle
    /\ \E s \in Setups : client_init(s.key) /\ query = s.query
    /\ codec = "strict"
    /\ call = [c \in Calls |-> IdleCall]

Next ==
    \/ \E c \in Calls, i \in SingleInputs :
          list_single_component_data(c, i.microgrid_id, i.component_id)
    \/ \E c \in Calls, g \in MultiInputs : list_microgrid_components_data(c, g)
    \/ \E c \in Calls : anext(c)
    \/ \E c \in Calls, item \in StreamItems : stream_message(c, item)
    \/ \E c \in Calls : stream_end(c)
    \/ \E c \in Calls : stream_error(c)
    \/ \E c \in Calls, raised \in {"CancelledError", "AioRpcError"} : stream_cancelled(c, raised)
    \/ close
    \/ \E exc \in ScopeErrors : aexit(exc)

Spec == Init /\ [][Next]_vars

\* One client, for the runs that follow behaviours to their end.
InitOne ==
    /\ InitBatchIdle
    /\ LET s == CHOOSE x \in Setups : TRUE IN client_init(s.key) /\ query = s.query
    /\ codec = "strict"
    /\ call = [c \in Calls |-> IdleCall]

\* The event loop reports a cancelled RPC to the generator waiting on it.
FairSpec ==
    /\ InitOne
    /\ [][Next]_vars
    /\ \A c \in Calls :
          WF_vars(\E raised \in {"CancelledError", "AioRpcError"} : stream_cancelled(c, raised))

InitBatch ==
    /\ batch \in {ComponentsDataBatch(m) : m \in PBResponses}
    /\ bop = {}
    /\ bempty = FALSE
    /\ bflat = <<>>
    /\ LET s == CHOOSE x \in Setups : TRUE IN client_init(s.key) /\ query = s.query
    /\ codec = "strict"
    /\ call = [c \in Calls |-> IdleCall]

NextBatch == batch_is_empty \/ batch_list

SpecBatch == InitBatch /\ [][NextBatch]_vars

\* Every key and every query, against a server that sends no response: it
\* ends its streams or fails them.
InitRequest ==
    /\ InitBatchIdle
    /\ \E k \in KeyInputs, q \in Queries : client_init(k) /\ query = q
    /\ codec = "strict"
    /\ call = [c \in Calls |-> IdleCall]

NextRequest ==
    \/ \E c \in Calls, i \in SingleInputs :
          list_single_component_data(c, i.microgrid_id, i.component_id)
    \/ \E c \in Calls, g \in MultiInputs : list_microgrid_components_data(c, g)
    \/ \E c \in Calls : anext(c)
    \/ \E c \in Calls : stream_end(c)
    \/ \E c \in Calls : stream_error(c)
    \/ \E c \in Calls, raised \in {"CancelledError", "AioRpcError"} : stream_cancelled(c, raised)
    \/ close
    \/ \E exc \in ScopeErrors : aexit(exc)

SpecRequest == InitRequest /\ [][NextRequest]_vars

\* One client, with either codec, against a server that also sends a metric
\* code the client's enum does not have; the callers use the client in an
\* `async with` block.
InitCodec ==
    /\ InitBatchIdle
    /\ LET s == CHOOSE x \in Setups : TRUE IN client_init(s.key) /\ query = s.query
    /\ codec \in CodecInputs
    /\ call = [c \in Calls |-> IdleCall]

NextCodec ==
    \/ \E c \in Calls, i \in SingleInputs :
          list_single_component_data(c, i.microgrid_id, i.component_id)
    \/ \E c \in Calls, g \in MultiInputs : list_microgrid_components_data(c, g)
    \/ \E c \in Calls : anext(c)
    \/ \E c \in Calls, item \in CodecItems : stream_message(c, item)
    \/ \E c \in Calls : stream_end(c)
    \/ \E c \in Calls, raised \in {"CancelledError", "AioRpcError"} : stream_cancelled(c, raised)
    \/ \E exc \in ScopeErrors : aexit(exc)

SpecCodec == InitCodec /\ [][NextCodec]_vars

\* ------------------------------------------------------------ properties
\* The batches a sequence of stream items stands for, one per item.
Batches(items) == [i \in 1..Len(items) |-> ComponentsDataBatch(items[i].pb)]

\* The entries of the batches of a sequence of stream items, batch after batch.
RECURSIVE FlattenAll(_)
FlattenAll(items) ==
    IF items = <<>> THEN <<>>
    ELSE batch_iter(ComponentsDataBatch(Head(items).pb)) \o FlattenAll(Tail(items))

\* The number of samples of the components before the k-th.
RECURSIVE Offset(_, _)
Offset(components, k) ==
    IF k <= 1 THEN 0
    ELSE Offset(components, k - 1) + Len(components[k - 1].metric_samples)

Terminated(c) == call[c].pc \in {"done", "failed"}

C2_TransportErrorEndsCleanly ==
    \A c \in Calls :
        call[c].ended = "rpc_error" =>
            /\ call[c].pc = "done"
            /\ call[c].err = ""
            /\ call[c].batches = Batches(call[c].received)
            /\ call[c].delivered = FlattenAll(call[c].received)

C2_Witness ==
    \E c \in Calls :
        /\ chan = "open"
        /\ call[c].ended = "rpc_error"
        /\ call[c].received = <<[falsy |-> FALSE, pb |-> RespTwo]>>
        /\ Len(call[c].delivered) = 2
        /\ call[c].pc = "done"

\* C3: the first step of an iteration begun after close() fails with
\* ClosedClientError and makes no call on the stub.
C3_ClosedClientError ==
    [][\A c \in Calls :
          (chan = "closed" /\ call[c].pc = "created" /\ call'[c].pc # "created") =>
              (call'[c].err = "ClosedClientError" /\ call'[c].sent = call[c].sent)]_vars

\* C4: list(batch) has one entry per sample, component after component and,
\* within a component, sample after sample; each entry carries the batch's
\* microgrid id, its component's id, and its sample's metric and time.
C4_FlattenOrder ==
    "iter" \in bop =>
        LET components == batch.data_pb.components
        IN /\ Len(bflat) = Offset(components, Len(components) + 1)
           /\ \A k \in 1..Len(components) :
                \A j \in 1..Len(components[k].metric_samples) :
                    LET entry == bflat[Offset(components, k) + j]
                        msample == components[k].metric_samples[j]
                    IN /\ entry.microgrid_id = batch.data_pb.microgrid_id
                       /\ entry.component_id = components[k].component_id
                       /\ entry.metric = Metric_from_proto_name(msample.metric)
                       /\ entry.timestamp = ToDatetime(msample.sampled_at)

C4_Witness ==
    /\ "iter" \in bop
    /\ Len(batch.data_pb.components) = 2
    /\ Len(batch.data_pb.components[1].metric_samples) = 2
    /\ Len(batch.data_pb.components[2].metric_samples) = 2
    /\ batch.data_pb.components[1].metric_samples[1]
         # batch.data_pb.components[1].metric_samples[2]
    /\ Len(bflat) = 4

\* C5: is_empty() is true exactly when the batch has no components or its
\* first component has no samples.
C5_IsEmptyIff ==
    "is_empty" \in bop =>
        (bempty <=> (\/ batch.data_pb.components = <<>>
                     \/ batch.data_pb.components[1].metric_samples = <<>>))

C5_Witness ==
    /\ "is_empty" \in bop
    /\ Len(batch.data_pb.components) = 2
    /\ batch.data_pb.components[1].metric_samples # <<>>
    /\ batch.data_pb.components[2].metric_samples = <<>>
    /\ bempty = FALSE

\* C6: the value of an entry is the sample's number when the sample's variant
\* is simple_metric, and None for every other variant.
C6_ValueOrAbsent ==
    "iter" \in bop =>
        LET components == batch.data_pb.components
        IN \A k \in 1..Len(components) :
              \A j \in 1..Len(components[k].metric_samples) :
                  LET entry == bflat[Offset(components, k) + j]
                      variant == components[k].metric_samples[j].value
                  IN entry.value = (IF variant.which = "simple_metric"
                                    THEN Some(variant.simple.value)
                                    ELSE None)

\* C7: a list_single_component_data call for (s, c) and a
\* list_microgrid_components_data call for [(s, [c])] send the same request;
\* when their streams deliver the same items and end the same way, the two
\* callers get the same entries and the same outcome.
C7_SingleEqualsMulti ==
    \A c1 \in Calls, c2 \in Calls :
        ( /\ call[c1].kind = "single"
          /\ call[c2].kind = "multi"
          /\ call[c2].input = << <<call[c1].input[1], <<call[c1].input[2]>>>> >> ) =>
            /\ (call[c1].sent # <<>> /\ call[c2].sent # <<>>) => call[c1].sent = call[c2].sent
            /\ ( /\ Terminated(c1)
                 /\ Terminated(c2)
                 /\ call[c1].received = call[c2].received
                 /\ call[c1].ended = call[c2].ended ) =>
                   /\ call[c1].delivered = call[c2].delivered
                   /\ call[c1].pc = call[c2].pc
                   /\ call[c1].err = call[c2].err

C7_Witness ==
    \E c1 \in Calls, c2 \in Calls :
        /\ call[c1].kind = "single"
        /\ call[c2].kind = "multi"
        /\ call[c2].input = << <<call[c1].input[1], <<call[c1].input[2]>>>> >>
        /\ call[c1].sent # <<>>
        /\ call[c1].sent = call[c2].sent
        /\ call[c1].pc = "done"
        /\ call[c2].pc = "done"
        /\ call[c1].received = <<[falsy |-> FALSE, pb |-> RespTwo]>>
        /\ call[c2].received = call[c1].received
        /\ call[c1].ended = "eof"
        /\ call[c2].ended = "eof"
        /\ Len(call[c1].delivered) = 2
        /\ call[c1].delivered = call[c2].delivered

\* C8: when the server closes the stream after n responses, one batch per
\* response has been produced in arrival order, the caller has got the
\* entries of the first batch, then those of the second, and so on, and the
\* iteration has ended without error.
C8_NormalEnd ==
    \A c \in Calls :
        call[c].ended = "eof" =>
            /\ call[c].pc = "done"
            /\ call[c].err = ""
            /\ Len(call[c].batches) = Len(call[c].received)
            /\ \A i \in 1..Len(call[c].received) :
                  call[c].batches[i] = ComponentsDataBatch(call[c].received[i].pb)
            /\ call[c].delivered = FlattenAll(call[c].received)

C8_Witness ==
    \E c \in Calls :
        /\ call[c].ended = "eof"
        /\ Len(call[c].received) = 2
        /\ call[c].received[1].pb = RespLate
        /\ call[c].received[2].pb = RespTwo
        /\ Len(call[c].delivered) = 3
        /\ call[c].pc = "done"

\* C9: a generator that waits for a response when the channel has been closed
\* stops waiting: its iteration ends or fails, it is not blocked for ever.
C9_CloseEndsStreams ==
    \A c \in Calls : (chan = "closed" /\ call[c].pc = "waiting") ~> Terminated(c)

C9_Witness ==
    /\ chan = "closed"
    /\ \A c \in Calls : call[c].ended \in {"cancelled", "rpc_error"} /\ Terminated(c)
    /\ \E c \in Calls : call[c].err = "CancelledError"

\* C10: a close() or __aexit__ on a client that is closed already raises
\* nothing and changes nothing: the channel stays closed and no caller's state
\* changes.
C10_CloseIdempotent ==
    [][(chan = "closed" /\ (closes' # closes \/ exited' # exited)) =>
          (chan' = "closed" /\ close_err' = "" /\ call' = call)]_vars

C10_Witness ==
    /\ chan = "closed"
    /\ closes = 2
    /\ exited
    /\ close_err = ""

\* The items of a stream up to, and without, the first falsy one.
RECURSIVE TruthyPrefix(_)
TruthyPrefix(items) ==
    IF items = <<>> \/ ~Truthy(Head(items)) THEN <<>>
    ELSE <<Head(items)>> \o TruthyPrefix(Tail(items))

IsPrefix(s, t) == Len(s) <= Len(t) /\ s = SubSeq(t, 1, Len(s))

\* The number of samples of all components of a response.
SampleCount(pb) == Offset(pb.components, Len(pb.components) + 1)

\* C11: callers that iterate at the same time do not touch each other: a step
\* of one caller's generator or stream (a response, a falsy item, an
\* AioRpcError, the end of the stream) leaves every other caller's state as it
\* was, and what a caller has got is at every moment a prefix of the entries
\* of its own stream's responses, and all of them once its iteration has ended
\* without error.
C11_CallsIndependent ==
    [][\A c \in Calls :
          call'[c] # call[c] =>
              /\ chan' = chan => \A d \in Calls \ {c} : call'[d] = call[d]
              /\ IsPrefix(call'[c].delivered, FlattenAll(TruthyPrefix(call'[c].received)))
              /\ call'[c].pc = "done" =>
                    call'[c].delivered = FlattenAll(TruthyPrefix(call'[c].received))]_vars

C11_Witness ==
    \E c \in Calls, d \in Calls :
        /\ chan = "open"
        /\ call[c].ended = "rpc_error"
        /\ call[c].received = <<[falsy |-> FALSE, pb |-> RespTwo]>>
        /\ Len(call[c].delivered) = 2
        /\ call[d].ended = "eof"
        /\ call[d].received = <<[falsy |-> FALSE, pb |-> RespLate]>>
        /\ Len(call[d].delivered) = 1
        /\ call[c].sent # <<>>
        /\ call[d].sent # <<>>

\* C12: a list_* call makes at most one call on the stub: none before its
\* first step, exactly one from then on, also after an AioRpcError, a falsy
\* item or the end of the stream.
C12_OneStubCall ==
    \A c \in Calls :
        /\ Len(call[c].sent) <= 1
        /\ call[c].pc \in {"idle", "created"} <=> call[c].sent = <<>>
        /\ Terminated(c) => Len(call[c].sent) = 1

C12_Witness ==
    \E c \in Calls, d \in Calls :
        /\ chan = "open"
        /\ call[c].ended = "rpc_error"
        /\ call[c].pc = "done"
        /\ Len(call[c].sent) = 1
        /\ call[d].pc = "done"
        /\ call[d].received # <<>>
        /\ ~Truthy(call[d].received[Len(call[d].received)])
        /\ Len(call[d].sent) = 1

\* C13: the stream is read one response at a time and only on demand: a
\* response is taken only by a generator whose caller is waiting in __anext__
\* and after every entry of the responses before it has been delivered; a
\* step takes at most one response; and a generator goes (back) to the stream
\* only in a step that delivers nothing and with no entry of a batch in hand.
C13_PullBased ==
    [][\A c \in Calls :
          /\ call'[c].received # call[c].received =>
                /\ call[c].pc = "waiting"
                /\ call[c].cur = <<>>
                /\ call[c].delivered = FlattenAll(call[c].received)
                /\ Len(call'[c].received) = Len(call[c].received) + 1
          /\ (call'[c].pc = "waiting" /\ call[c].pc # "waiting") =>
                /\ call[c].cur = <<>>
                /\ call'[c].delivered = call[c].delivered]_vars

C13_Witness ==
    \E c \in Calls :
        /\ call[c].pc = "suspended"
        /\ call[c].stream = "open"
        /\ Len(call[c].received) = 2
        /\ Len(call[c].delivered) = 3
        /\ Len(call[c].cur) = 1

\* C17: no batch is left out because its is_empty() is true: what a caller
\* has got, together with the entries of the batch in hand, is one entry per
\* sample of every component of every response received.
C17_NoEmptyFilter ==
    \A c \in Calls :
        LET r == TruthyPrefix(call[c].received)
        IN /\ call[c].delivered \o call[c].cur = FlattenAll(r)
           /\ \A i \in 1..Len(r) :
                 Len(batch_iter(call[c].batches[i])) = SampleCount(r[i].pb)

C17_Witness ==
    \E c \in Calls :
        /\ call[c].received = <<[falsy |-> FALSE, pb |-> RespLate]>>
        /\ is_empty(call[c].batches[1])
        /\ Len(call[c].delivered) = 1
        /\ call[c].delivered[1].component_id = RespLate.components[2].component_id

\* The groupings a caller passed, as list_* hands them on.
Groupings(c) ==
    IF call[c].kind = "single"
    THEN << <<call[c].input[1], <<call[c].input[2]>>>> >>
    ELSE call[c].input

\* C15 (as claimed): a client made with a key, the empty string included,
\* sends ("key", key) with every stub call; a client made without one sends
\* no metadata; the metadata never changes.
C15_KeyMetadataAnyKey ==
    \A c \in Calls : \A i \in 1..Len(call[c].sent) :
        call[c].sent[i].metadata =
            (IF api_key # None THEN << <<"key", api_key[1]>> >> ELSE <<>>)

\* C15: a client made with a non-empty key sends ("key", key), and nothing
\* else, as the metadata of every stub call; a client made without a key, or
\* with the empty string as its key, sends no metadata; the client's metadata
\* is the same in every state.
C15_KeyMetadata ==
    LET expected == IF api_key # None /\ api_key # Some("")
                    THEN << <<"key", api_key[1]>> >> ELSE <<>>
    IN /\ metadata = expected
       /\ \A c \in Calls : \A i \in 1..Len(call[c].sent) :
             call[c].sent[i].metadata = expected

C15_Witness ==
    /\ api_key = Some("secret")
    /\ chan = "closed"
    /\ \E c \in Calls, d \in Calls :
          /\ call[c].sent # <<>>
          /\ call[c].ended = "eof"
          /\ call[d].ended = "refused"
          /\ call[c].sent[1].metadata = << <<"key", "secret">> >>
          /\ call[d].sent[1].metadata = << <<"key", "secret">> >>

\* C16: whatever the window, also one whose start is after its end, the first
\* step of a list_* call on an open channel builds one request and hands it to
\* the stub without an error: the request has the caller's groupings and
\* metrics in the caller's order, the start and the end as given (not swapped,
\* not clamped), and the resolution as given.
C16_NoRangeValidation ==
    \A c \in Calls :
        call[c].pc \notin {"idle", "created"} =>
            LET req == call[c].sent[1].request
                g == Groupings(c)
                m == IF query.metrics.is_metric
                     THEN <<query.metrics.items[1]>> ELSE query.metrics.items
            IN /\ Len(call[c].sent) = 1
               /\ Len(req.microgrid_components) = Len(g)
               /\ \A i \in 1..Len(g) :
                     /\ req.microgrid_components[i].microgrid_id = g[i][1]
                     /\ req.microgrid_components[i].component_ids = g[i][2]
               /\ Len(req.metrics) = Len(m)
               /\ \A i \in 1..Len(m) : Metric_from_proto_name(req.metrics[i]) = m[i]
               /\ ToDatetime(req.filter.time_filter.start) = query.start_dt
               /\ ToDatetime(req.filter.time_filter.end) = query.end_dt
               /\ req.filter.resampling_options.resolution = query.resolution
               /\ call[c].ended # "refused" => call[c].err \in {"", "CancelledError"}
               /\ (call[c].err = "CancelledError") => chan = "closed"

C16_Witness ==
    /\ query.start_dt > query.end_dt
    /\ chan = "open"
    /\ \E c \in Calls :
          /\ call[c].kind = "multi"
          /\ Len(call[c].input) = 2
          /\ call[c].pc = "waiting"
          /\ call[c].err = ""
          /\ Len(call[c].sent) = 1
          /\ ToDatetime(call[c].sent[1].request.filter.time_filter.start)
               > ToDatetime(call[c].sent[1].request.filter.time_filter.end)

\* C14: once the `async with` block has been left, by its end or by an
\* exception raised in it, the channel is closed, no stream is left open, and
\* the exception that left the block is the one raised in it: __aexit__
\* suppresses nothing.
C14_ScopeReleases ==
    exited =>
        /\ chan = "closed"
        /\ \A c \in Calls : call[c].stream # "open"
        /\ scope_exit.propagated = scope_exit.raised

C14_Witness ==
    /\ exited
    /\ closes = 0
    /\ chan = "closed"
    /\ scope_exit.raised = "ValueError"
    /\ scope_exit.propagated = "ValueError"
    /\ \E c \in Calls : call[c].err = "ValueError"
    /\ \E c \in Calls : call[c].stream = "cancelled"

\* C18: an exception raised while a batch is iterated (Metric.from_proto on a
\* code the enum does not have) is not taken for the end of the stream: the
\* caller keeps the entries of the responses before and those the batch
\* yielded before the exception, gets the exception as the outcome of its
\* next __anext__, and gets no entry and no response after it.
C18_IterErrorPropagates ==
    \A c \in Calls :
        LET r == call[c].received
            n == Len(r)
        IN /\ \A i \in 1..(n - 1) : ~iter_raises(r[i].pb)
           /\ call[c].err = "ValueError" => (n > 0 /\ iter_raises(r[n].pb))
           /\ (n > 0 /\ iter_raises(r[n].pb)) =>
                 LET before ==
                        FlattenAll(SubSeq(r, 1, n - 1))
                        \o Take(batch_iter(ComponentsDataBatch(r[n].pb)),
                                yielded(iter_codes(r[n].pb.components)))
                 IN /\ call[c].pc \in {"suspended", "failed"}
                    /\ IsPrefix(call[c].delivered, before)
                    /\ call[c].pc = "failed" =>
                          /\ call[c].err = "ValueError"
                          /\ call[c].delivered = before

C18_Witness ==
    \E c \in Calls :
        /\ chan = "open"
        /\ call[c].pc = "failed"
        /\ call[c].err = "ValueError"
        /\ Len(call[c].received) = 2
        /\ call[c].received[1].pb = RespTwo
        /\ call[c].received[2].pb = RespBad
        /\ Len(call[c].delivered) = 3

====
